---- MODULE Spec2Model ----
(***************************************************************************)
(* A model of the DIL engine (src/dil_engine.py): the guardrail rules, the *)
(* decision policy, the SHA-256 / HMAC record hashes and the hash-chained  *)
(* in-memory ledger with its cached tip hash.                              *)
(* With it: the HTTP handlers of src/api/index.py, the get_dil_engine      *)
(* singleton, and the orchestration of src/main.py with src/brain.         *)
(*                                                                         *)
(* Numbers.  Amounts are whole dollars.  Risk scores are hundredths        *)
(* (0.65 is 65), so RISK_HARD_LIMIT 0.5 is 50 and RISK_SOFT_LIMIT 0.7 is   *)
(* 70.  Floating-point NaN is outside the model.                           *)
(*                                                                         *)
(* Hashes.  SHA-256 and HMAC-SHA256 are ideal (collision-free) functions   *)
(* of the serialized fields: a digest is the tagged tuple of what was      *)
(* hashed.  Python's None is the empty tuple.                              *)
(***************************************************************************)
EXTENDS Integers, Sequences, FiniteSets, TLC

VARIABLES ledger, previous_hash, last, pc, local, tamper, probe,
          resp, inflight, evals, engine_instance, engines, db, orch

vars ==
    <<ledger, previous_hash, last, pc, local, tamper, probe,
      resp, inflight, evals, engine_instance, engines, db, orch>>

-----------------------------------------------------------------------------
(* Bounds of the model *)

\* the longest ledger the sequential specifications build
MaxLedger == 2

\* the number of concurrent process_audit calls
NumThreads == 2

\* the longest hand-made violation list given to _determine_decision
MaxViolations == 2

\* the number of POST /audit requests the server holds unanswered at once
MaxInflight == 2

-----------------------------------------------------------------------------
(* Program constants: DILEngine class attributes *)

AMOUNT_HARD_LIMIT == 1000000

AMOUNT_SOFT_LIMIT == 100000

RISK_HARD_LIMIT == 50

RISK_SOFT_LIMIT == 70

GOVERNANCE_SECRET == "DIL_GOVERNANCE_SECRET_2026"

\* Python's None, for the optional hashes
None == <<>>

-----------------------------------------------------------------------------
(* Input domains *)

\* amounts on both sides of, and on, the two amount thresholds
Amounts == {5000, 100000, 150000, 1000000, 2000000}

\* risk scores (hundredths) on both sides of, and on, the two risk thresholds
Risks == {30, 50, 65, 70, 85}

\* the amounts and risk scores of the requests that reach the ledger: under
\* the soft limit, on the hard limit (the top of the soft range) and over it
LedgerAmounts == {5000, 1000000, 2000000}

LedgerRisks == {30, 50, 85}

UserIds == {"user-001"}

\* request ids: supplied by the caller, or uuid4().hex[:8] drawn by
\* AuditRequest.__post_init__ (a random draw is a free choice of the set)
RequestIds == {"REQ-A", "REQ-B"}

\* timestamps: supplied by the caller, or utcnow() at construction
Timestamps == {"2026-02-01T12:00:00"}

\* Python is dynamically typed and AuditRequest checks nothing: a field may
\* hold a value its annotation does not allow.  "ok": every field has its
\* annotated type.  "amount_not_number": amount is None or a str.
\* "risk_not_number": ai_risk_score is None or a str.  "not_serializable":
\* a field json.dumps cannot encode (bytes, a datetime object, a Decimal).
Shapes == {"ok", "amount_not_number", "risk_not_number", "not_serializable"}

\* AuditRequest after __post_init__: request_id and timestamp are set
AuditRequest(uid, amt, risk, rid, ts, shape) ==
    [user_id |-> uid, amount |-> amt, ai_risk_score |-> risk,
     request_id |-> rid, timestamp |-> ts, shape |-> shape]

WellTypedRequests ==
    { AuditRequest(u, a, r, i, t, "ok") :
        u \in UserIds, a \in LedgerAmounts, r \in LedgerRisks,
        i \in RequestIds, t \in Timestamps }

\* one request of each ill-typed shape (the numeric placeholders are never
\* read past the statement that raises, except by the serialization failure,
\* which is reached with well-typed numbers)
IllTypedRequests ==
    { AuditRequest("user-001", 5000, 85, "REQ-A", "2026-02-01T12:00:00", s) :
        s \in Shapes \ {"ok"} }

Requests == WellTypedRequests \cup IllTypedRequests

-----------------------------------------------------------------------------
(* GuardrailViolation and check_guardrails *)

GuardrailViolation(rule, threshold, actual, severity) ==
    [violated_rule |-> rule, threshold_value |-> threshold,
     actual_value |-> actual, severity |-> severity]

\* the four rules in the order check_guardrails evaluates them
AmountHardRule(amount) ==
    IF amount > AMOUNT_HARD_LIMIT
    THEN <<GuardrailViolation("AMOUNT_HARD_LIMIT", AMOUNT_HARD_LIMIT, amount, "HARD")>>
    ELSE <<>>

RiskHardRule(risk_score) ==
    IF risk_score < RISK_HARD_LIMIT
    THEN <<GuardrailViolation("RISK_HARD_LIMIT", RISK_HARD_LIMIT, risk_score, "HARD")>>
    ELSE <<>>

\* a variant whose soft amount rule has no upper end
AmountSoftRuleOpenEnded(amount) ==
    IF amount > AMOUNT_SOFT_LIMIT
    THEN <<GuardrailViolation("AMOUNT_SOFT_LIMIT", AMOUNT_SOFT_LIMIT, amount, "SOFT")>>
    ELSE <<>>

AmountSoftRule(amount) ==
    IF AMOUNT_HARD_LIMIT >= amount /\ amount > AMOUNT_SOFT_LIMIT
    THEN <<GuardrailViolation("AMOUNT_SOFT_LIMIT", AMOUNT_SOFT_LIMIT, amount, "SOFT")>>
    ELSE <<>>

RiskSoftRule(risk_score) ==
    IF RISK_HARD_LIMIT <= risk_score /\ risk_score < RISK_SOFT_LIMIT
    THEN <<GuardrailViolation("RISK_SOFT_LIMIT", RISK_SOFT_LIMIT, risk_score, "SOFT")>>
    ELSE <<>>

\* a variant that evaluates both amount rules before the risk rules
CheckGuardrailsAmountFirst(amount, risk_score) ==
    AmountHardRule(amount) \o AmountSoftRule(amount)
        \o RiskHardRule(risk_score) \o RiskSoftRule(risk_score)

\* a variant that looks at the engine: once the ledger holds a record, the
\* soft rules are skipped
CheckGuardrailsByLedger(amount, risk_score) ==
    IF Len(ledger) = 0
    THEN AmountHardRule(amount) \o RiskHardRule(risk_score)
            \o AmountSoftRule(amount) \o RiskSoftRule(risk_score)
    ELSE AmountHardRule(amount) \o RiskHardRule(risk_score)

CheckGuardrails(amount, risk_score) ==
    AmountHardRule(amount) \o RiskHardRule(risk_score)
        \o AmountSoftRule(amount) \o RiskSoftRule(risk_score)

-----------------------------------------------------------------------------
(* _determine_decision *)

\* [v for v in violations if v.severity == sev]
BySeverity(violations, sev) ==
    SelectSeq(violations, LAMBDA v : v.severity = sev)

\* f"{v.violated_rule} (threshold: {v.threshold_value}, actual: {v.actual_value})"
ReasonItem(v) ==
    [violated_rule |-> v.violated_rule, threshold_value |-> v.threshold_value,
     actual_value |-> v.actual_value]

ReasonItems(vs) ==
    [i \in 1..Len(vs) |-> ReasonItem(vs[i])]

\* The reason string, by its parts: the fixed prefix, the '; '-joined items,
\* and, in the APPROVED text only, the formatted amount and risk score
\* (-1 where the text does not hold them).
Reason(prefix, items, amount, risk_score) ==
    [prefix |-> prefix, items |-> items, amount |-> amount, risk |-> risk_score]

\* a variant that tests the SOFT violations before the HARD ones
DetermineDecisionSoftFirst(violations, amount, risk_score) ==
    LET hard_violations == BySeverity(violations, "HARD")
        soft_violations == BySeverity(violations, "SOFT")
    IN  IF soft_violations # <<>>
        THEN [decision |-> "FLAGGED",
              reason |-> Reason("FLAGGED: Requires review - ",
                                ReasonItems(soft_violations), -1, -1)]
        ELSE IF hard_violations # <<>>
        THEN [decision |-> "BLOCKED",
              reason |-> Reason("BLOCKED: ", ReasonItems(hard_violations), -1, -1)]
        ELSE [decision |-> "APPROVED",
              reason |-> Reason("APPROVED: All guardrails passed",
                                <<>>, amount, risk_score)]

\* a variant whose reason lists every violation, whatever its severity
DetermineDecisionListsAll(violations, amount, risk_score) ==
    LET hard_violations == BySeverity(violations, "HARD")
        soft_violations == BySeverity(violations, "SOFT")
    IN  IF hard_violations # <<>>
        THEN [decision |-> "BLOCKED",
              reason |-> Reason("BLOCKED: ", ReasonItems(violations), -1, -1)]
        ELSE IF soft_violations # <<>>
        THEN [decision |-> "FLAGGED",
              reason |-> Reason("FLAGGED: Requires review - ",
                                ReasonItems(violations), -1, -1)]
        ELSE [decision |-> "APPROVED",
              reason |-> Reason("APPROVED: All guardrails passed",
                                <<>>, amount, risk_score)]

DetermineDecision(violations, amount, risk_score) ==
    LET hard_violations == BySeverity(violations, "HARD")
        soft_violations == BySeverity(violations, "SOFT")
    IN  IF hard_violations # <<>>
        THEN [decision |-> "BLOCKED",
              reason |-> Reason("BLOCKED: ", ReasonItems(hard_violations), -1, -1)]
        ELSE IF soft_violations # <<>>
        THEN [decision |-> "FLAGGED",
              reason |-> Reason("FLAGGED: Requires review - ",
                                ReasonItems(soft_violations), -1, -1)]
        ELSE [decision |-> "APPROVED",
              reason |-> Reason("APPROVED: All guardrails passed",
                                <<>>, amount, risk_score)]

-----------------------------------------------------------------------------
(* Hashing *)

\* a variant that hashes the request alone, before the decision is known
RecordDictNoDecision(request, decision, reason) ==
    [request_id |-> request.request_id, user_id |-> request.user_id,
     amount |-> request.amount, ai_risk_score |-> request.ai_risk_score,
     decision |-> "", reason |-> reason, timestamp |-> request.timestamp]

\* the dict process_audit hashes (json.dumps sorts its keys, so the digest
\* depends on the key/value pairs alone)
RecordDict(request, decision, reason) ==
    [request_id |-> request.request_id, user_id |-> request.user_id,
     amount |-> request.amount, ai_risk_score |-> request.ai_risk_score,
     decision |-> decision, reason |-> reason, timestamp |-> request.timestamp]

\* a variant that hashes the engine's tip hash along with the record's fields
GenerateSha256Chained(data) ==
    <<"sha256", data, previous_hash>>

GenerateSha256(data) ==
    <<"sha256", data>>

GenerateGovernanceHash(data) ==
    <<"hmac-sha256", GOVERNANCE_SECRET, data>>

-----------------------------------------------------------------------------
(* AuditRecord and the ledger reads *)

\* a variant that never links the record to its predecessor
AuditRecordUnlinked(request, decision, reason, sha256_hash, prev, governance_hash) ==
    [request_id |-> request.request_id, decision |-> decision,
     user_id |-> request.user_id, amount |-> request.amount,
     ai_risk_score |-> request.ai_risk_score, reason |-> reason,
     sha256_hash |-> sha256_hash, previous_hash |-> None,
     governance_hash |-> governance_hash, timestamp |-> request.timestamp]

\* a variant that gives every record its own hash as previous_hash
AuditRecordSelfLinked(request, decision, reason, sha256_hash, prev, governance_hash) ==
    [request_id |-> request.request_id, decision |-> decision,
     user_id |-> request.user_id, amount |-> request.amount,
     ai_risk_score |-> request.ai_risk_score, reason |-> reason,
     sha256_hash |-> sha256_hash, previous_hash |-> sha256_hash,
     governance_hash |-> governance_hash, timestamp |-> request.timestamp]

\* a variant that stores every record as approved
AuditRecordAlwaysApproved(request, decision, reason, sha256_hash, prev, governance_hash) ==
    [request_id |-> request.request_id, decision |-> "APPROVED",
     user_id |-> request.user_id, amount |-> request.amount,
     ai_risk_score |-> request.ai_risk_score, reason |-> reason,
     sha256_hash |-> sha256_hash, previous_hash |-> prev,
     governance_hash |-> governance_hash, timestamp |-> request.timestamp]

\* AuditRecord(...) as process_audit builds it
AuditRecord(request, decision, reason, sha256_hash, prev, governance_hash) ==
    [request_id |-> request.request_id, decision |-> decision,
     user_id |-> request.user_id, amount |-> request.amount,
     ai_risk_score |-> request.ai_risk_score, reason |-> reason,
     sha256_hash |-> sha256_hash, previous_hash |-> prev,
     governance_hash |-> governance_hash, timestamp |-> request.timestamp]

\* a variant that counts from zero
GetLedgerSizeZeroBased(ldg) ==
    Len(ldg) - 1

GetLedgerSize(ldg) ==
    Len(ldg)

GetCurrentHash(tip) ==
    tip

RECURSIVE ScanFrom(_, _)
\* the for loop of verify_chain_integrity from position i on (positions count
\* from 1 here): False at the first record not linked to the one before it
ScanFrom(ldg, i) ==
    IF i > Len(ldg) THEN TRUE
    ELSE IF ldg[i].previous_hash # ldg[i - 1].sha256_hash THEN FALSE
    ELSE ScanFrom(ldg, i + 1)

\* a variant without the single-record case
VerifyChainIntegrityNoSingleCase(ldg) ==
    IF Len(ldg) = 0 THEN TRUE
    ELSE ScanFrom(ldg, 2)

VerifyChainIntegrity(ldg) ==
    IF Len(ldg) = 0 THEN TRUE
    ELSE IF Len(ldg) = 1 THEN ldg[1].previous_hash = None
    ELSE ScanFrom(ldg, 2)

\* a variant that puts the new record at the front of the list
LedgerAfterPrepend(ldg, record) ==
    <<record>> \o ldg

\* self.ledger.append(record)
LedgerAfter(ldg, record) ==
    Append(ldg, record)

\* a variant that leaves the cached tip as it was
TipAfterStale(tip, sha256_hash) ==
    tip

\* self.previous_hash = sha256_hash
TipAfter(tip, sha256_hash) ==
    sha256_hash

-----------------------------------------------------------------------------
(* process_audit, one call run to its end *)

\* a variant that stores the record before it serializes and hashes it
StatementsStoreFirst ==
    <<"log", "guardrails", "decision", "construct", "append", "tip", "hash", "return">>

\* the statements of process_audit in program order
Statements ==
    <<"log", "guardrails", "decision", "hash", "construct", "append", "tip", "return">>

Position(stmt) ==
    CHOOSE i \in 1..Len(Statements) : Statements[i] = stmt

\* what each statement raises on:
\*   "log"        f"{request.amount:,.2f}" needs a number
\*   "guardrails" amount > limit, risk_score < limit need numbers
\*   "hash"       json.dumps needs JSON-serializable values
Raises(request, stmt) ==
    \/ stmt = "log" /\ request.shape = "amount_not_number"
    \/ stmt = "guardrails" /\ request.shape \in {"amount_not_number", "risk_not_number"}
    \/ stmt = "hash" /\ request.shape = "not_serializable"

\* the position of the first statement that raises, Len(Statements) + 1 if none
StopsAt(request) ==
    LET raising == { i \in 1..Len(Statements) : Raises(request, Statements[i]) }
    IN  IF raising = {} THEN Len(Statements) + 1
        ELSE CHOOSE i \in raising : \A j \in raising : i <= j

\* a statement has run iff it comes before the one that raised
Ran(request, stmt) ==
    Position(stmt) < StopsAt(request)

NoCall ==
    [status |-> "none"]

Raised(request) ==
    [status |-> "raised", request |-> request, at |-> Statements[StopsAt(request)]]

Returned(request, violations, decision, reason, record) ==
    [status |-> "returned", request |-> request, violations |-> violations,
     decision |-> decision, reason |-> reason, record |-> record]

\* what one call does to the engine it is made on: the ledger and the tip it
\* leaves, and what the caller gets
ProcessAuditResult(ldg, tip, request) ==
    LET violations == CheckGuardrails(request.amount, request.ai_risk_score)
        dd == DetermineDecision(violations, request.amount, request.ai_risk_score)
        record_dict == RecordDict(request, dd.decision, dd.reason)
        sha256_hash == GenerateSha256(record_dict)
        governance_hash == GenerateGovernanceHash(record_dict)
        record == AuditRecord(request, dd.decision, dd.reason, sha256_hash,
                              tip, governance_hash)
    IN  [ledger |-> IF Ran(request, "append") THEN LedgerAfter(ldg, record) ELSE ldg,
         previous_hash |-> IF Ran(request, "tip")
                           THEN TipAfter(tip, sha256_hash)
                           ELSE tip,
         last |-> IF Ran(request, "return")
                  THEN Returned(request, violations, dd.decision, dd.reason, record)
                  ELSE Raised(request)]

\* the call on the engine of this model
ProcessAuditCall(request) ==
    LET out == ProcessAuditResult(ledger, previous_hash, request)
    IN  /\ Len(ledger) < MaxLedger
        /\ ledger' = out.ledger
        /\ previous_hash' = out.previous_hash
        /\ last' = out.last

ProcessAudit(request) ==
    /\ ProcessAuditCall(request)
    /\ UNCHANGED <<pc, local, tamper, probe, resp, inflight, evals,
                   engine_instance, engines, db, orch>>

-----------------------------------------------------------------------------
(* process_audit called from several threads: the statements that touch the *)
(* engine's state each take one step (the engine holds no lock)             *)

Threads == 1..NumThreads

\* each concurrent call carries its own request id
ThreadRequestId(t) ==
    <<"REQ-T", t>>

ConcRequests(t) ==
    { AuditRequest("user-001", a, 85, ThreadRequestId(t), "2026-02-01T12:00:00", "ok") :
        a \in {5000, 150000} }

\* lines 132-154: guardrails, decision and hashes, all on the call's own data
TEvaluate(t, request) ==
    LET violations == CheckGuardrails(request.amount, request.ai_risk_score)
        dd == DetermineDecision(violations, request.amount, request.ai_risk_score)
        record_dict == RecordDict(request, dd.decision, dd.reason)
    IN  /\ pc[t] = "idle"
        /\ pc' = [pc EXCEPT ![t] = "evaluated"]
        /\ local' = [local EXCEPT ![t] =
                        [request |-> request, decision |-> dd.decision,
                         reason |-> dd.reason,
                         sha256_hash |-> GenerateSha256(record_dict),
                         governance_hash |-> GenerateGovernanceHash(record_dict)]]
        /\ evals' = Append(evals, request.request_id)
        /\ UNCHANGED <<ledger, previous_hash, last, tamper, probe, resp,
                       inflight, engine_instance, engines, db, orch>>

\* lines 157-168: AuditRecord(..., previous_hash=self.previous_hash, ...)
TConstruct(t) ==
    /\ pc[t] = "evaluated"
    /\ pc' = [pc EXCEPT ![t] = "constructed"]
    /\ local' = [local EXCEPT ![t] =
                    [record |-> AuditRecord(local[t].request, local[t].decision,
                                            local[t].reason, local[t].sha256_hash,
                                            previous_hash, local[t].governance_hash),
                     sha256_hash |-> local[t].sha256_hash]]
    /\ UNCHANGED <<ledger, previous_hash, last, tamper, probe, resp, inflight,
                   evals, engine_instance, engines, db, orch>>

\* line 170: self.ledger.append(record)
TAppend(t) ==
    /\ pc[t] = "constructed"
    /\ ledger' = LedgerAfter(ledger, local[t].record)
    /\ pc' = [pc EXCEPT ![t] = "appended"]
    /\ UNCHANGED <<previous_hash, last, local, tamper, probe, resp, inflight,
                   evals, engine_instance, engines, db, orch>>

\* line 171: self.previous_hash = sha256_hash, then the return
TSetTip(t) ==
    /\ pc[t] = "appended"
    /\ previous_hash' = TipAfter(previous_hash, local[t].sha256_hash)
    /\ pc' = [pc EXCEPT ![t] = "done"]
    /\ UNCHANGED <<ledger, last, local, tamper, probe, resp, inflight, evals,
                   engine_instance, engines, db, orch>>

-----------------------------------------------------------------------------
(* A stored record changed from outside the engine: AuditRecord is a plain  *)
(* (not frozen) dataclass held in a plain list                              *)

RecordFields ==
    {"request_id", "user_id", "amount", "ai_risk_score", "decision", "reason",
     "timestamp", "sha256_hash", "previous_hash", "governance_hash"}

ForgedDict ==
    RecordDict(AuditRequest("mallory", 5000, 85, "REQ-X", "1999-01-01T00:00:00", "ok"),
               "APPROVED", Reason("APPROVED: All guardrails passed", <<>>, 5000, 85))

\* the values a field may be overwritten with
TamperValues(field) ==
    CASE field = "request_id" -> RequestIds \cup {"REQ-X"}
      [] field = "user_id" -> UserIds \cup {"mallory"}
      [] field = "amount" -> Amounts
      [] field = "ai_risk_score" -> Risks
      [] field = "decision" -> {"APPROVED", "FLAGGED", "BLOCKED"}
      [] field = "reason" -> {ForgedDict.reason, Reason("BLOCKED: ", <<>>, -1, -1)}
      [] field = "timestamp" -> Timestamps \cup {"1999-01-01T00:00:00"}
      [] field = "sha256_hash" -> {GenerateSha256(ForgedDict)}
      [] field = "previous_hash" ->
            {None, GenerateSha256(ForgedDict)} \cup { ledger[j].sha256_hash : j \in 1..Len(ledger) }
      [] field = "governance_hash" -> {GenerateGovernanceHash(ForgedDict)}

\* the requests of the calls whose records are later overwritten
TamperRequests ==
    { r \in WellTypedRequests : r.amount \in {5000, 2000000} /\ r.ai_risk_score = 85 }

NoTamper ==
    [index |-> 0, field |-> "none"]

Tamper(i, field, value) ==
    /\ tamper = NoTamper
    /\ i \in 1..Len(ledger)
    /\ value # ledger[i][field]
    /\ ledger' = [ledger EXCEPT ![i][field] = value]
    /\ tamper' = [index |-> i, field |-> field]
    /\ UNCHANGED <<previous_hash, last, pc, local, probe, resp, inflight,
                   evals, engine_instance, engines, db, orch>>

-----------------------------------------------------------------------------
(* check_guardrails and _determine_decision as functions of their arguments *)

\* violations a caller may hand to _determine_decision: the four rules' and
\* one with a severity that is neither "HARD" nor "SOFT"
ViolationPool ==
    { GuardrailViolation("AMOUNT_HARD_LIMIT", AMOUNT_HARD_LIMIT, 2000000, "HARD"),
      GuardrailViolation("RISK_HARD_LIMIT", RISK_HARD_LIMIT, 30, "HARD"),
      GuardrailViolation("AMOUNT_SOFT_LIMIT", AMOUNT_SOFT_LIMIT, 150000, "SOFT"),
      GuardrailViolation("RISK_SOFT_LIMIT", RISK_SOFT_LIMIT, 65, "SOFT"),
      GuardrailViolation("CUSTOM_RULE", 0, 1, "INFO") }

ViolationLists ==
    UNION { [1..n -> ViolationPool] : n \in 0..MaxViolations }

NoProbe ==
    [src |-> "none"]

\* no handler has answered yet
NoResponse ==
    [kind |-> "none"]

ProbeGuardrails(amount, risk_score) ==
    /\ probe' = [src |-> "check_guardrails", amount |-> amount, risk |-> risk_score,
                 violations |-> CheckGuardrails(amount, risk_score), out |-> <<>>]
    /\ UNCHANGED <<ledger, previous_hash, last, pc, local, tamper, resp,
                   inflight, evals, engine_instance, engines, db, orch>>

ProbeViolations(violations, amount, risk_score) ==
    /\ probe' = [src |-> "caller", amount |-> amount, risk |-> risk_score,
                 violations |-> violations, out |-> <<>>]
    /\ UNCHANGED <<ledger, previous_hash, last, pc, local, tamper, resp,
                   inflight, evals, engine_instance, engines, db, orch>>

ProbeResolve ==
    /\ probe.src # "none"
    /\ probe.out = <<>>
    /\ probe' = [probe EXCEPT !.out =
                    <<DetermineDecision(probe.violations, probe.amount, probe.risk)>>]
    /\ UNCHANGED <<ledger, previous_hash, last, pc, local, tamper, resp,
                   inflight, evals, engine_instance, engines, db, orch>>

-----------------------------------------------------------------------------
(* The HTTP boundary (src/api/index.py): POST /audit.  Every handler is an  *)
(* async def with no await in its body, so the event loop runs one handler  *)
(* call from its first statement to its return before it starts the next.   *)

\* AuditRequestModel's Field constraints (risk scores in hundredths)
USER_ID_MIN_LENGTH == 1

USER_ID_MAX_LENGTH == 255

AMOUNT_GE == 0

AMOUNT_LE == 10000000

RISK_SCORE_GE == 0

RISK_SCORE_LE == 100

\* a user id of 256 characters
LongUserId == "user-256-characters-long"

\* len(user_id) for the user ids of the model
UserIdLength(user_id) ==
    CASE user_id = "" -> 0
      [] user_id = "user-001" -> 8
      [] user_id = LongUserId -> 256

\* the JSON body of a POST /audit
AuditBody(user_id, amount, ai_risk_score) ==
    [user_id |-> user_id, amount |-> amount, ai_risk_score |-> ai_risk_score]

\* bodies inside the bounds, one of them on the bounds of amount and risk
ValidBodies ==
    { AuditBody("user-001", 5000, 85), AuditBody("user-001", AMOUNT_LE, RISK_SCORE_GE) }

\* one body just outside each bound
InvalidBodies ==
    { AuditBody("", 5000, 85), AuditBody(LongUserId, 5000, 85),
      AuditBody("user-001", -5, 85), AuditBody("user-001", AMOUNT_LE + 1, 85),
      AuditBody("user-001", 5000, -1), AuditBody("user-001", 5000, RISK_SCORE_LE + 1) }

AuditBodies ==
    ValidBodies \cup InvalidBodies

\* pydantic's validation of a body against AuditRequestModel
AuditRequestModel(body) ==
    /\ UserIdLength(body.user_id) >= USER_ID_MIN_LENGTH
    /\ UserIdLength(body.user_id) <= USER_ID_MAX_LENGTH
    /\ body.amount >= AMOUNT_GE
    /\ body.amount <= AMOUNT_LE
    /\ body.ai_risk_score >= RISK_SCORE_GE
    /\ body.ai_risk_score <= RISK_SCORE_LE

\* FastAPI's answer to a body that fails the model: the handler is not called
RequestValidationError(body) ==
    [kind |-> "audit", status_code |-> 422, body |-> body]

\* the dict audit_transaction returns
AuditResponse(record, chain_depth) ==
    [kind |-> "audit", status_code |-> 200,
     request_id |-> record.request_id, decision |-> record.decision,
     reason |-> record.reason, amount |-> record.amount,
     ai_risk_score |-> record.ai_risk_score, sha256_hash |-> record.sha256_hash,
     previous_hash |-> record.previous_hash,
     governance_hash |-> record.governance_hash, timestamp |-> record.timestamp,
     chain_depth |-> chain_depth]

\* a client's POST /audit reaches the server and waits for the event loop
Receive(body) ==
    /\ Cardinality(inflight) < MaxInflight
    /\ body \notin inflight
    /\ inflight' = inflight \cup {body}
    /\ UNCHANGED <<ledger, previous_hash, last, pc, local, tamper, probe, resp,
                   evals, engine_instance, engines, db, orch>>

\* the event loop takes one waiting request: validation, then the handler
\* from AuditRequest(...) to its return.  request_id and timestamp are what
\* __post_init__ draws.  The except branches need process_audit to raise,
\* which it does not on the floats and the str a validated body holds.
AuditTransaction(body, request_id, timestamp) ==
    /\ body \in inflight
    /\ inflight' = inflight \ {body}
    /\ IF AuditRequestModel(body)
       THEN /\ ProcessAuditCall(AuditRequest(body.user_id, body.amount,
                                             body.ai_risk_score, request_id,
                                             timestamp, "ok"))
            /\ resp' = AuditResponse(last'.record, GetLedgerSize(ledger'))
       ELSE /\ resp' = RequestValidationError(body)
            /\ UNCHANGED <<ledger, previous_hash, last, db, orch>>
    /\ UNCHANGED <<pc, local, tamper, probe, evals, engine_instance, engines,
                   db, orch>>

\* GET /health: the dict health_check returns.  The except branch needs
\* get_ledger_size or verify_chain_integrity to raise, which they do not.
HealthCheck ==
    /\ resp' = [kind |-> "health", status_code |-> 200, status |-> "healthy",
                service |-> "DIL API", ledger_size |-> GetLedgerSize(ledger),
                chain_integrity |-> VerifyChainIntegrity(ledger)]
    /\ resp' # resp
    /\ UNCHANGED <<ledger, previous_hash, last, pc, local, tamper, probe,
                   inflight, evals, engine_instance, engines, db, orch>>

\* requests a Python caller hands to process_audit itself: AuditRequest and
\* process_audit check no bound
DirectRequests ==
    { AuditRequest(body.user_id, body.amount, body.ai_risk_score, "REQ-A",
                   "2026-02-01T12:00:00", "ok") : body \in AuditBodies }

-----------------------------------------------------------------------------
(* A reader beside the running process_audit calls *)

\* what GET /ledger reads from the engine: get_ledger(), verify_chain_integrity()
\* and get_current_hash().  The three reads are taken in one step, the most a
\* reader can hope for from an engine that holds no lock.
ReadLedger ==
    /\ resp' = [kind |-> "ledger", records |-> ledger,
                total_count |-> GetLedgerSize(ledger),
                chain_integrity |-> VerifyChainIntegrity(ledger),
                current_hash |-> GetCurrentHash(previous_hash)]
    /\ resp' # resp
    /\ UNCHANGED <<ledger, previous_hash, last, pc, local, tamper, probe,
                   inflight, evals, engine_instance, engines, db, orch>>

-----------------------------------------------------------------------------
(* get_dil_engine called from several threads.  engine_instance is the      *)
(* module global _engine_instance; engines are the DILEngine objects made   *)
(* so far; a reference to the i-th of them is <<i>>, and None is <<>>.      *)

\* DILEngine(): an engine as __init__ leaves it
NewEngine ==
    [ledger |-> <<>>, previous_hash |-> None]

\* line 328: if _engine_instance is None
GetTest(t) ==
    /\ pc[t] = "idle"
    /\ pc' = [pc EXCEPT ![t] = IF engine_instance = None THEN "creating" ELSE "returning"]
    /\ UNCHANGED <<ledger, previous_hash, last, local, tamper, probe, resp,
                   inflight, evals, engine_instance, engines, db, orch>>

\* line 329: _engine_instance = DILEngine()
GetCreate(t) ==
    /\ pc[t] = "creating"
    /\ engines' = Append(engines, NewEngine)
    /\ engine_instance' = <<Len(engines) + 1>>
    /\ pc' = [pc EXCEPT ![t] = "returning"]
    /\ UNCHANGED <<ledger, previous_hash, last, local, tamper, probe, resp,
                   inflight, evals, db, orch>>

\* line 330: return _engine_instance, the global as it is now
GetReturn(t) ==
    /\ pc[t] = "returning"
    /\ local' = [local EXCEPT ![t] = [engine |-> engine_instance]]
    /\ pc' = [pc EXCEPT ![t] = "holding"]
    /\ UNCHANGED <<ledger, previous_hash, last, tamper, probe, resp, inflight,
                   evals, engine_instance, engines, db, orch>>

\* the caller audits one request on the engine it was given, and is free for
\* its next request
EngineAudit(t, request) ==
    LET e == local[t].engine[1]
        out == ProcessAuditResult(engines[e].ledger, engines[e].previous_hash, request)
    IN  /\ pc[t] = "holding"
        /\ Len(engines[e].ledger) < MaxLedger
        /\ engines' = [engines EXCEPT ![e] =
                          [ledger |-> out.ledger, previous_hash |-> out.previous_hash]]
        /\ pc' = [pc EXCEPT ![t] = "idle"]
        /\ UNCHANGED <<ledger, previous_hash, last, local, tamper, probe, resp,
                       inflight, evals, engine_instance, db, orch>>

-----------------------------------------------------------------------------
(* The engine's read methods, and a caller that writes into what get_ledger *)
(* gave it.  A returned list either is made of the engine's own objects     *)
(* (shared) or of new ones; a write into a shared one is a write into the   *)
(* engine.                                                                  *)

\* AuditRecord.to_dict: asdict(self), a new dict with the ten fields
ToDict(record) ==
    [request_id |-> record.request_id, decision |-> record.decision,
     user_id |-> record.user_id, amount |-> record.amount,
     ai_risk_score |-> record.ai_risk_score, reason |-> record.reason,
     sha256_hash |-> record.sha256_hash, previous_hash |-> record.previous_hash,
     governance_hash |-> record.governance_hash, timestamp |-> record.timestamp]

\* a variant that hands out the engine's own list of records
GetLedgerShared(ldg) ==
    [value |-> ldg, shared |-> TRUE]

\* [record.to_dict() for record in self.ledger]: a new list of new dicts
GetLedger(ldg) ==
    [value |-> [i \in 1..Len(ldg) |-> ToDict(ldg[i])], shared |-> FALSE]

\* the requests of the calls made between the reads
ReadRequests ==
    { r \in WellTypedRequests :
        r.amount \in {5000, 2000000} /\ r.ai_risk_score = 85 }

\* the fields a caller overwrites in a returned dict
ModifiedFields ==
    {"decision", "sha256_hash"}

CallGetLedger ==
    LET returned == GetLedger(ledger)
    IN  /\ resp' = [kind |-> "get_ledger", value |-> returned.value,
                    shared |-> returned.shared, modified |-> FALSE]
        /\ resp' # resp
        /\ UNCHANGED <<ledger, previous_hash, last, pc, local, tamper, probe,
                       inflight, evals, engine_instance, engines, db, orch>>

CallGetLedgerSize ==
    /\ resp' = [kind |-> "get_ledger_size", size |-> GetLedgerSize(ledger)]
    /\ resp' # resp
    /\ UNCHANGED <<ledger, previous_hash, last, pc, local, tamper, probe,
                   inflight, evals, engine_instance, engines, db, orch>>

CallGetCurrentHash ==
    /\ resp' = [kind |-> "get_current_hash", hash |-> GetCurrentHash(previous_hash)]
    /\ resp' # resp
    /\ UNCHANGED <<ledger, previous_hash, last, pc, local, tamper, probe,
                   inflight, evals, engine_instance, engines, db, orch>>

CallVerifyChainIntegrity ==
    /\ resp' = [kind |-> "verify_chain_integrity", valid |-> VerifyChainIntegrity(ledger)]
    /\ resp' # resp
    /\ UNCHANGED <<ledger, previous_hash, last, pc, local, tamper, probe,
                   inflight, evals, engine_instance, engines, db, orch>>

\* the caller assigns returned[i][field] = value, once per returned list
ModifyReturned(i, field, value) ==
    /\ resp.kind = "get_ledger"
    /\ ~resp.modified
    /\ i \in 1..Len(resp.value)
    /\ value # resp.value[i][field]
    /\ resp' = [resp EXCEPT !.value[i][field] = value, !.modified = TRUE]
    /\ ledger' = IF resp.shared THEN [ledger EXCEPT ![i][field] = value] ELSE ledger
    /\ UNCHANGED <<previous_hash, last, pc, local, tamper, probe, inflight,
                   evals, engine_instance, engines, db, orch>>

\* the caller drops the last item of the returned list, once per returned list
TruncateReturned ==
    /\ resp.kind = "get_ledger"
    /\ ~resp.modified
    /\ Len(resp.value) > 0
    /\ resp' = [resp EXCEPT !.value = SubSeq(resp.value, 1, Len(resp.value) - 1),
                            !.modified = TRUE]
    /\ ledger' = IF resp.shared THEN SubSeq(ledger, 1, Len(resp.value) - 1) ELSE ledger
    /\ UNCHANGED <<previous_hash, last, pc, local, tamper, probe, inflight,
                   evals, engine_instance, engines, db, orch>>

-----------------------------------------------------------------------------
(* GET /ledger *)

\* the query parameter of GET /ledger: absent (None), or <<L>> for the int L
Limits ==
    {None} \cup { <<L>> : L \in -1..(MaxLedger + 1) }

\* Python's truth value of limit: None and 0 are false
Truthy(limit) ==
    /\ limit # None
    /\ limit[1] # 0

\* a variant that takes the records from the front: all_records[:limit]
SliceFromHead(list, start) ==
    SubSeq(list, 1, IF -start < Len(list) THEN -start ELSE Len(list))

\* Python's list[start:]: a negative start counts from the end, and a start
\* beyond either end is clamped to that end
SliceFrom(list, start) ==
    LET n == Len(list)
        from == IF start < 0
                THEN (IF n + start < 0 THEN 0 ELSE n + start)
                ELSE (IF start > n THEN n ELSE start)
    IN  SubSeq(list, from + 1, n)

\* GET /ledger: the dict get_ledger returns.  The except branch needs an engine
\* read to raise, which none does.
GetLedgerEndpoint(limit) ==
    LET all_records == GetLedger(ledger).value
        records == IF Truthy(limit) /\ limit[1] > 0
                   THEN SliceFrom(all_records, -limit[1])
                   ELSE all_records
    IN  /\ resp' = [kind |-> "ledger", limit |-> limit, records |-> records,
                    total_count |-> Len(all_records),
                    chain_integrity |-> VerifyChainIntegrity(ledger),
                    current_hash |-> GetCurrentHash(previous_hash)]
        /\ resp' # resp
        /\ UNCHANGED <<ledger, previous_hash, last, pc, local, tamper, probe,
                       inflight, evals, engine_instance, engines, db, orch>>

-----------------------------------------------------------------------------
(* run_dil_orchestration (src/main.py) with the risk scorer and the SQLite  *)
(* ledger of src/brain.  Scores are thousandths (0.7 is 700): calculate_risk *)
(* rounds to three places.  db is the set of fingerprints in the ledger      *)
(* table of dil_ledger.db; it outlives every run.                            *)

\* the gatekeeper's risk threshold
HITL_THRESHOLD == 700

\* one call's arguments: prompt, agent_output and context_data.  serializable
\* is whether json.dumps can encode the payload built from them.
Scenario(prompt, action, confidence, completeness, domain, tx_value, safety, serializable) ==
    [prompt |-> prompt, proposed_action |-> action, confidence_score |-> confidence,
     context_completeness |-> completeness, domain |-> domain,
     transaction_value |-> tx_value, patient_safety_impact |-> safety,
     serializable |-> serializable]

\* the two cases of main(), scores on and just over the threshold, and a
\* context that json.dumps rejects
Scenarios ==
    { Scenario("Transfer $100 to Alice.", "Execute transfer", 980, 950, "fintech", 100, 0, TRUE),
      Scenario("Adjust dosage of medication.", "Increase dosage", 600, 200, "health", 0, 900, TRUE),
      Scenario("Close account.", "Close", 300, 1000, "general", 0, 0, TRUE),
      Scenario("Close account.", "Close now", 299, 1000, "general", 0, 0, TRUE),
      Scenario("Transfer $100 to Alice.", "Execute transfer", 980, 950, "fintech", 100, 0, FALSE) }

\* calculate_risk's RiskScore
CalculateRisk(scenario) ==
    LET base_risk == 1000 - scenario.confidence_score
        context_spike == (1000 - scenario.context_completeness) \div 2
        per_value == scenario.transaction_value \div 20
        val_impact == IF per_value < 400 THEN per_value ELSE 400
        safety_weight == (scenario.patient_safety_impact * 6) \div 10
        risk_score == base_risk + context_spike
                        + (IF scenario.domain = "fintech" THEN val_impact
                           ELSE IF scenario.domain = "health" THEN safety_weight
                           ELSE 0)
        capped == IF risk_score < 1000 THEN risk_score ELSE 1000
    IN  IF capped > 0 THEN capped ELSE 0

\* sha256(prompt + proposed_action + str(RiskScore)), an ideal hash of the
\* three parts
Fingerprint(scenario, risk_score) ==
    <<"sha256", scenario.prompt, scenario.proposed_action, risk_score>>

\* what stops log_decision's try block: json.dumps on a payload it cannot
\* encode, the INSERT of a fingerprint the UNIQUE column already holds, any
\* other failure of the database (locked, read-only, full), or nothing
Exceptions ==
    {"TypeError", "IntegrityError", "OperationalError"}

RaisedInTry(scenario, risk_score, rows, db_fault) ==
    IF ~scenario.serializable THEN "TypeError"
    ELSE IF db_fault THEN "OperationalError"
    ELSE IF Fingerprint(scenario, risk_score) \in rows THEN "IntegrityError"
    ELSE "none"

\* a variant whose handler lets the UNIQUE violation through
ExceptClauseNotIntegrity(exc) ==
    exc \in Exceptions \ {"IntegrityError"}

\* except Exception: every class above derives from Exception
ExceptClause(exc) ==
    exc \in Exceptions

\* a variant that waits for the ledger task alone
GatheredLedgerOnly(o) ==
    o.ledger_done

\* await asyncio.gather(explainer_task, ledger_task) has returned
Gathered(o) ==
    o.explainer_done /\ o.ledger_done

NoOrchestration ==
    [pc |-> "idle", scenario |-> <<>>, risk_score |-> 0,
     explainer_done |-> FALSE, ledger_done |-> FALSE, exc |-> "none",
     ledger_raised |-> FALSE, ledger_success |-> FALSE,
     status |-> "REJECTED/WAITING", is_certified |-> FALSE]

\* lines 16-38: the payload, the risk score, and the two tasks are created
RunDilOrchestration(scenario) ==
    /\ orch.pc \in {"idle", "returned"}
    /\ orch' = [NoOrchestration EXCEPT !.pc = "gathering", !.scenario = <<scenario>>,
                                      !.risk_score = CalculateRisk(scenario)]
    /\ UNCHANGED <<ledger, previous_hash, last, pc, local, tamper, probe, resp,
                   inflight, evals, engine_instance, engines, db>>

\* the explainer task runs to its return
AuditorExplainer ==
    /\ orch.pc = "gathering"
    /\ ~orch.explainer_done
    /\ orch' = [orch EXCEPT !.explainer_done = TRUE]
    /\ UNCHANGED <<ledger, previous_hash, last, pc, local, tamper, probe, resp,
                   inflight, evals, engine_instance, engines, db>>

\* the ledger task runs to its return: fingerprint, json.dumps, _write_to_db
\* in the executor (the row is committed only if nothing raised), and the
\* try/except around them
LogDecision(db_fault) ==
    LET scenario == orch.scenario[1]
        exc == RaisedInTry(scenario, orch.risk_score, db, db_fault)
        caught == exc # "none" /\ ExceptClause(exc)
    IN  /\ orch.pc = "gathering"
        /\ ~orch.ledger_done
        /\ db' = IF exc = "none"
                 THEN db \cup {Fingerprint(scenario, orch.risk_score)}
                 ELSE db
        /\ orch' = [orch EXCEPT !.ledger_done = TRUE, !.exc = exc,
                                !.ledger_raised = (exc # "none" /\ ~caught),
                                !.ledger_success = (exc = "none")]
        /\ UNCHANGED <<ledger, previous_hash, last, pc, local, tamper, probe,
                       resp, inflight, evals, engine_instance, engines>>

\* lines 42-66: the gate.  An exception out of a task would leave gather
\* before the gate is reached.
Gatekeeper ==
    /\ orch.pc = "gathering"
    /\ Gathered(orch)
    /\ ~orch.ledger_raised
    /\ orch' = [orch EXCEPT
                  !.pc = "returned",
                  !.status =
                      IF ~orch.ledger_success
                      THEN "FAILED: Ledger write unsuccessful. Integrity check required."
                      ELSE IF orch.risk_score > HITL_THRESHOLD
                      THEN "HITL_PAUSE: Risk score above threshold (0.7). Human intervention required."
                      ELSE "CERTIFIED: Decision passed all safety and logging protocols.",
                  !.is_certified = (orch.ledger_success /\ ~(orch.risk_score > HITL_THRESHOLD))]
    /\ UNCHANGED <<ledger, previous_hash, last, pc, local, tamper, probe, resp,
                   inflight, evals, engine_instance, engines, db>>

-----------------------------------------------------------------------------
(* Specifications *)

\* DILEngine.__init__: empty ledger, no tip hash
Init ==
    /\ ledger = <<>>
    /\ previous_hash = None
    /\ last = NoCall
    /\ pc = [t \in Threads |-> "idle"]
    /\ local = [t \in Threads |-> <<>>]
    /\ tamper = NoTamper
    /\ probe = NoProbe
    /\ resp = NoResponse
    /\ inflight = {}
    /\ evals = <<>>
    /\ engine_instance = None
    /\ engines = <<>>
    /\ db = {}
    /\ orch = NoOrchestration

\* calls made one at a time
Next ==
    \E request \in Requests : ProcessAudit(request)

Spec ==
    Init /\ [][Next]_vars

\* NumThreads calls made at once
NextConc ==
    \E t \in Threads :
        \/ \E request \in ConcRequests(t) : TEvaluate(t, request)
        \/ TConstruct(t)
        \/ TAppend(t)
        \/ TSetTip(t)

SpecConc ==
    Init /\ [][NextConc]_vars

\* calls made one at a time, and one field of one stored record overwritten
NextTamper ==
    \/ \E request \in TamperRequests : ProcessAudit(request)
    \/ \E i \in 1..Len(ledger) : \E field \in RecordFields :
          \E value \in TamperValues(field) : Tamper(i, field, value)

SpecTamper ==
    Init /\ [][NextTamper]_vars

\* the two pure functions on their own
NextDecision ==
    \/ \E a \in Amounts : \E r \in Risks : ProbeGuardrails(a, r)
    \/ \E vs \in ViolationLists : \E a \in {5000, 2000000} : ProbeViolations(vs, a, 85)
    \/ ProbeResolve

SpecDecision ==
    Init /\ [][NextDecision]_vars

\* POST /audit requests, several in flight at once
NextApi ==
    \/ \E body \in AuditBodies : Receive(body)
    \/ \E body \in AuditBodies : \E request_id \in RequestIds :
          \E timestamp \in Timestamps : AuditTransaction(body, request_id, timestamp)

SpecApi ==
    Init /\ [][NextApi]_vars

\* the two ways a request reaches process_audit: POST /audit and a direct call
NextBoundary ==
    \/ NextApi
    \/ \E request \in DirectRequests : ProcessAudit(request)

SpecBoundary ==
    Init /\ [][NextBoundary]_vars

\* NumThreads calls made at once, and a reader
NextConcRead ==
    \/ NextConc
    \/ ReadLedger

SpecConcRead ==
    Init /\ [][NextConcRead]_vars

\* NumThreads callers at once, each calling get_dil_engine before every audit
NextSingleton ==
    \E t \in Threads :
        \/ GetTest(t)
        \/ GetCreate(t)
        \/ GetReturn(t)
        \/ \E request \in ConcRequests(t) : EngineAudit(t, request)

SpecSingleton ==
    Init /\ [][NextSingleton]_vars

\* calls made one at a time, one stored field overwritten, and health checks
NextHealth ==
    \/ NextTamper
    \/ HealthCheck

SpecHealth ==
    Init /\ [][NextHealth]_vars

\* calls made one at a time, the four reads, and writes into a returned list
NextRead ==
    \/ \E request \in ReadRequests : ProcessAudit(request)
    \/ CallGetLedger
    \/ CallGetLedgerSize
    \/ CallGetCurrentHash
    \/ CallVerifyChainIntegrity
    \/ \E i \in 1..MaxLedger : \E field \in ModifiedFields :
          \E value \in TamperValues(field) : ModifyReturned(i, field, value)
    \/ TruncateReturned

SpecRead ==
    Init /\ [][NextRead]_vars

\* calls made one at a time, a previous_hash overwritten, and GET /ledger
NextLedgerQuery ==
    \/ \E request \in ReadRequests : ProcessAudit(request)
    \/ \E i \in 1..Len(ledger) : \E value \in TamperValues("previous_hash") :
          Tamper(i, "previous_hash", value)
    \/ \E limit \in Limits : GetLedgerEndpoint(limit)

SpecLedgerQuery ==
    Init /\ [][NextLedgerQuery]_vars

\* orchestration runs one after the other on one database file
NextOrchestration ==
    \/ \E scenario \in Scenarios : RunDilOrchestration(scenario)
    \/ AuditorExplainer
    \/ \E db_fault \in BOOLEAN : LogDecision(db_fault)
    \/ Gatekeeper

SpecOrchestration ==
    Init /\ [][NextOrchestration]_vars

-----------------------------------------------------------------------------
(* Properties *)

\* the seven pre-hash fields of a stored record
PreHashFields(rec) ==
    [request_id |-> rec.request_id, user_id |-> rec.user_id, amount |-> rec.amount,
     ai_risk_score |-> rec.ai_risk_score, decision |-> rec.decision,
     reason |-> rec.reason, timestamp |-> rec.timestamp]

Linked(ldg) ==
    \A i \in 2..Len(ldg) : ldg[i].previous_hash = ldg[i - 1].sha256_hash

\* C1: after any number of successful process_audit calls on a fresh engine,
\* verify_chain_integrity() is True and every record but the first holds its
\* predecessor's sha256_hash as previous_hash.
C1_ChainInvariant ==
    /\ VerifyChainIntegrity(ledger) = TRUE
    /\ Linked(ledger)

C1_Witness ==
    /\ Len(ledger) >= 2
    /\ last.status = "returned"
    /\ ledger[2].previous_hash = ledger[1].sha256_hash
    /\ ledger[2].previous_hash # None

\* C2: once K concurrent process_audit calls have all returned, the ledger has
\* K records, the chain is unbroken, and no two records share a previous_hash.
C2_NoFork ==
    (\A t \in Threads : pc[t] = "done") =>
        /\ Len(ledger) = NumThreads
        /\ Linked(ledger)
        /\ \A i, j \in 1..Len(ledger) :
              i # j => ledger[i].previous_hash # ledger[j].previous_hash

\* a call is on the append path from its read of the tip hash to its write of it
OnAppendPath(t) ==
    pc[t] \in {"constructed", "appended"}

\* C3: no two process_audit calls are at once between reading the tip hash
\* and writing the new one.
C3_AppendSerialized ==
    \A t1, t2 \in Threads : t1 # t2 => ~(OnAppendPath(t1) /\ OnAppendPath(t2))

\* C4: once any single field of a stored record has been changed to another
\* value, verify_chain_integrity() is False.
C4_TamperDetected ==
    tamper # NoTamper => VerifyChainIntegrity(ledger) = FALSE

\* C5: every stored record's sha256_hash is the content hash of its own seven
\* pre-hash fields, and its governance_hash the HMAC of the same fields.
C5_HashReproducible ==
    \A i \in 1..Len(ledger) :
        /\ ledger[i].sha256_hash = GenerateSha256(PreHashFields(ledger[i]))
        /\ ledger[i].governance_hash = GenerateGovernanceHash(PreHashFields(ledger[i]))

C5_Witness ==
    /\ Len(ledger) >= 2
    /\ ledger[1].decision = "FLAGGED"
    /\ ledger[2].decision = "BLOCKED"
    /\ ledger[2].sha256_hash = GenerateSha256(PreHashFields(ledger[2]))

\* C6: a request with amount > 1,000,000 is BLOCKED whatever its risk score,
\* and a request with ai_risk_score < 0.5 is BLOCKED whatever its amount.
C6_DecisionMonotone ==
    /\ last.status = "returned" =>
          /\ last.request.amount > 1000000 => last.decision = "BLOCKED"
          /\ last.request.ai_risk_score < 50 => last.decision = "BLOCKED"
    /\ \A i \in 1..Len(ledger) :
          /\ ledger[i].amount > 1000000 => ledger[i].decision = "BLOCKED"
          /\ ledger[i].ai_risk_score < 50 => ledger[i].decision = "BLOCKED"

C6_Witness ==
    /\ last.status = "returned"
    /\ last.request.amount > 1000000
    /\ last.request.ai_risk_score = 50
    /\ last.decision = "BLOCKED"

\* the reason items of the violations of one severity, in list order
Listed(violations, sev) ==
    LET idx == { i \in 1..Len(violations) : violations[i].severity = sev }
        nth(k) == CHOOSE i \in idx : Cardinality({ j \in idx : j < i }) = k - 1
    IN  [k \in 1..Cardinality(idx) |->
            [violated_rule |-> violations[nth(k)].violated_rule,
             threshold_value |-> violations[nth(k)].threshold_value,
             actual_value |-> violations[nth(k)].actual_value]]

Has(violations, sev) ==
    \E i \in 1..Len(violations) : violations[i].severity = sev

RuleRank(rule) ==
    CASE rule = "AMOUNT_HARD_LIMIT" -> 1
      [] rule = "RISK_HARD_LIMIT" -> 2
      [] rule = "AMOUNT_SOFT_LIMIT" -> 3
      [] rule = "RISK_SOFT_LIMIT" -> 4
      [] OTHER -> 0

InRuleOrder(items) ==
    /\ \A i \in 1..Len(items) : RuleRank(items[i].violated_rule) > 0
    /\ \A i, j \in 1..Len(items) :
          i < j => RuleRank(items[i].violated_rule) < RuleRank(items[j].violated_rule)

RuleNames(items) ==
    [i \in 1..Len(items) |-> items[i].violated_rule]

\* C8: check_guardrails returns a subsequence of AMOUNT_HARD_LIMIT,
\* RISK_HARD_LIMIT, AMOUNT_SOFT_LIMIT, RISK_SOFT_LIMIT in that order; amount and
\* risk both in the soft ranges give both SOFT rules (FLAGGED), amount >
\* 1,000,000 with risk < 0.5 both HARD rules (BLOCKED); the reason lists the
\* rules in the same order.
C8_EvaluationOrder ==
    probe.src = "check_guardrails" =>
        LET vs == probe.violations
            a == probe.amount
            r == probe.risk
            soft_both == a > 100000 /\ a <= 1000000 /\ r >= 50 /\ r < 70
            hard_both == a > 1000000 /\ r < 50
        IN  /\ InRuleOrder(vs)
            /\ soft_both => RuleNames(vs) = <<"AMOUNT_SOFT_LIMIT", "RISK_SOFT_LIMIT">>
            /\ hard_both => RuleNames(vs) = <<"AMOUNT_HARD_LIMIT", "RISK_HARD_LIMIT">>
            /\ probe.out # <<>> =>
                  /\ InRuleOrder(probe.out[1].reason.items)
                  /\ soft_both =>
                        /\ probe.out[1].decision = "FLAGGED"
                        /\ RuleNames(probe.out[1].reason.items) = RuleNames(vs)
                  /\ hard_both =>
                        /\ probe.out[1].decision = "BLOCKED"
                        /\ RuleNames(probe.out[1].reason.items) = RuleNames(vs)

C8_Witness ==
    /\ probe.src = "check_guardrails"
    /\ probe.amount = 150000
    /\ probe.risk = 65
    /\ probe.out # <<>>
    /\ RuleNames(probe.out[1].reason.items) = <<"AMOUNT_SOFT_LIMIT", "RISK_SOFT_LIMIT">>

\* C9: a process_audit call that raises leaves the ledger and the tip hash as
\* they were; and no call, returned or raised, extends the ledger without
\* moving the tip hash to the new record, or moves the tip hash without
\* extending the ledger.
C9_FailureAtomic ==
    [][ /\ last'.status = "raised" =>
              ledger' = ledger /\ previous_hash' = previous_hash
        /\ ledger' # ledger =>
              /\ Len(ledger') = Len(ledger) + 1
              /\ previous_hash' = ledger'[Len(ledger')].sha256_hash
        /\ ledger' = ledger => previous_hash' = previous_hash ]_vars

C9_Witness ==
    /\ last.status = "raised"
    /\ last.at = "hash"
    /\ Len(ledger) = 1
    /\ previous_hash = ledger[1].sha256_hash

\* C10: after any sequence of completed process_audit calls,
\* get_current_hash() is None iff the ledger is empty, and otherwise is the
\* sha256_hash of the last record.
C10_TipHash ==
    /\ GetCurrentHash(previous_hash) = None <=> GetLedgerSize(ledger) = 0
    /\ GetLedgerSize(ledger) > 0 =>
          GetCurrentHash(previous_hash) = ledger[Len(ledger)].sha256_hash

C10_Witness ==
    /\ Len(ledger) = 2
    /\ ledger[1].sha256_hash # ledger[2].sha256_hash
    /\ previous_hash = ledger[2].sha256_hash

\* ldg is an initial part of ldg2
IsPrefix(ldg, ldg2) ==
    /\ Len(ldg) <= Len(ldg2)
    /\ \A i \in 1..Len(ldg) : ldg2[i] = ldg[i]

\* C11: the ledger is empty at construction; every process_audit call that
\* returns makes the ledger one longer, the returned record being the new last
\* one; and every step leaves the ledger it found as an initial part of the
\* ledger it leaves.
C11_AppendOnly ==
    /\ GetLedgerSize(ledger) = 0
    /\ [][ /\ IsPrefix(ledger, ledger')
           /\ last'.status = "returned" =>
                 /\ GetLedgerSize(ledger') = GetLedgerSize(ledger) + 1
                 /\ ledger'[Len(ledger')] = last'.record ]_vars

C11_Witness ==
    /\ Len(ledger) = 2
    /\ last.status = "returned"
    /\ last.record = ledger[2]
    /\ ledger[1] # ledger[2]

\* C15: no two records of the ledger carry the same request_id.
C15_UniqueRequestIds ==
    \A i \in 1..Len(ledger) : \A j \in 1..Len(ledger) :
        i # j => ledger[i].request_id # ledger[j].request_id

\* the bounds of a request's fields; they are the stored record's fields too
InBounds(r) ==
    /\ r.user_id \notin {"", LongUserId}
    /\ r.amount \in 0..10000000
    /\ r.ai_risk_score \in 0..100

\* C12: a request with a field out of bounds never reaches check_guardrails
\* and leaves no record in the ledger, by whichever path it came.
C12_ValidatedAtBoundary ==
    /\ last.status # "none" => InBounds(last.request)
    /\ \A i \in 1..Len(ledger) : InBounds(ledger[i])

\* C13: the first record of the ledger has previous_hash None, and the
\* response to the first successful POST /audit reports chain_depth 1.
C13_FirstRecord ==
    /\ Len(ledger) >= 1 => ledger[1].previous_hash = None
    /\ (resp.kind = "audit" /\ resp.status_code = 200 /\ Len(ledger) = 1) =>
          /\ resp.chain_depth = 1
          /\ resp.previous_hash = None

C13_Witness ==
    /\ Len(ledger) = 1
    /\ resp.kind = "audit"
    /\ resp.status_code = 200
    /\ resp.sha256_hash = ledger[1].sha256_hash
    /\ resp.chain_depth = 1

\* C14: verify_chain_integrity is True on an empty ledger, on a single record
\* exactly when its previous_hash is None, and on a longer ledger exactly when
\* every record after the first carries the sha256_hash of the one before it.
C14_VerifyResult ==
    VerifyChainIntegrity(ledger) =
        CASE Len(ledger) = 0 -> TRUE
          [] Len(ledger) = 1 -> ledger[1].previous_hash = None
          [] OTHER -> \A i \in 2..Len(ledger) :
                          ledger[i].previous_hash = ledger[i - 1].sha256_hash

\* a single tampered record that the check rejects
C14_Witness ==
    /\ Len(ledger) = 1
    /\ tamper.field = "previous_hash"
    /\ ~VerifyChainIntegrity(ledger)

\* C16: what a read returns is never a half-committed append: the last record
\* it returns carries the tip hash it returns, and the records it returns are
\* linked.
C16_ConsistentSnapshot ==
    (resp.kind = "ledger" /\ resp.total_count > 0) =>
        resp.records[resp.total_count].sha256_hash = resp.current_hash

\* the position of a request in the order of the guardrail evaluations
EvalIndex(request_id) ==
    CHOOSE k \in 1..Len(evals) : evals[k] = request_id

\* C17: records stand in the ledger in the order in which their requests were
\* evaluated.
C17_CommitOrder ==
    \A i \in 1..Len(ledger) : \A j \in 1..Len(ledger) :
        i < j => EvalIndex(ledger[i].request_id) < EvalIndex(ledger[j].request_id)

\* C18: one DILEngine is made, every call of get_dil_engine returns it, and
\* no record is committed to an engine other than the one the global names.
C18_SingleInstance ==
    /\ Len(engines) <= 1
    /\ \A t \in Threads : \A u \in Threads :
          (pc[t] = "holding" /\ pc[u] = "holding") =>
              local[t].engine = local[u].engine
    /\ \A e \in 1..Len(engines) : <<e>> # engine_instance => engines[e].ledger = <<>>

\* the record a successful POST /audit response describes
Describes(response, record) ==
    /\ response.request_id = record.request_id
    /\ response.sha256_hash = record.sha256_hash
    /\ response.previous_hash = record.previous_hash
    /\ response.governance_hash = record.governance_hash

\* C19: the chain_depth of a successful POST /audit response is the size of
\* the ledger right after the call's own append: the record the response
\* describes stands at that position, counted from 1, and is the last one,
\* whatever other requests the server holds at the time.
C19_ChainDepth ==
    (resp.kind = "audit" /\ resp.status_code = 200) =>
        /\ resp.chain_depth = Len(ledger)
        /\ resp.chain_depth >= 1
        /\ Describes(resp, ledger[resp.chain_depth])

\* a second audit answered while another request is waiting
C19_Witness ==
    /\ resp.kind = "audit"
    /\ resp.status_code = 200
    /\ resp.chain_depth = 2
    /\ inflight \cap ValidBodies # {}
    /\ ledger[1].request_id # ledger[2].request_id

\* C20: a health check made while verify_chain_integrity is False does not
\* answer "healthy".
C20_IntegrityAlarm ==
    (resp.kind = "health" /\ ~resp.chain_integrity) =>
        ~(resp.status_code = 200 /\ resp.status = "healthy")

\* C21: two evaluations of the same (amount, ai_risk_score) give the same
\* decision and the same reason, whatever the ledger and the tip hash were at
\* each of them and whatever calls were made in between: any two stored
\* records, and the latest call and any stored record, that agree on amount
\* and risk score agree on decision and reason.
C21_DecisionDeterministic ==
    /\ \A i \in 1..Len(ledger) : \A j \in 1..Len(ledger) :
          (ledger[i].amount = ledger[j].amount
             /\ ledger[i].ai_risk_score = ledger[j].ai_risk_score) =>
                /\ ledger[i].decision = ledger[j].decision
                /\ ledger[i].reason = ledger[j].reason
    /\ last.status = "returned" =>
          \A i \in 1..Len(ledger) :
              (ledger[i].amount = last.request.amount
                 /\ ledger[i].ai_risk_score = last.request.ai_risk_score) =>
                    /\ ledger[i].decision = last.decision
                    /\ ledger[i].reason = last.reason

\* the same flagged input audited on an empty and on a non-empty ledger
C21_Witness ==
    /\ Len(ledger) = 2
    /\ ledger[1].amount = ledger[2].amount
    /\ ledger[1].ai_risk_score = ledger[2].ai_risk_score
    /\ ledger[1].request_id # ledger[2].request_id
    /\ ledger[2].decision = "FLAGGED"
    /\ ledger[1].previous_hash # ledger[2].previous_hash

\* C22: a record's sha256_hash and governance_hash do not depend on where in
\* the chain the record stands: two stored records made from requests with the
\* same request_id, user_id, amount, ai_risk_score and timestamp carry the same
\* two hashes, whatever their previous_hash.
C22_HashIgnoresPosition ==
    \A i \in 1..Len(ledger) : \A j \in 1..Len(ledger) :
        (/\ ledger[i].request_id = ledger[j].request_id
         /\ ledger[i].user_id = ledger[j].user_id
         /\ ledger[i].amount = ledger[j].amount
         /\ ledger[i].ai_risk_score = ledger[j].ai_risk_score
         /\ ledger[i].timestamp = ledger[j].timestamp) =>
            /\ ledger[i].sha256_hash = ledger[j].sha256_hash
            /\ ledger[i].governance_hash = ledger[j].governance_hash

\* the same request committed first and second: the hashes agree, the links
\* do not
C22_Witness ==
    /\ Len(ledger) = 2
    /\ PreHashFields(ledger[1]) = PreHashFields(ledger[2])
    /\ ledger[1].previous_hash = None
    /\ ledger[2].previous_hash # None
    /\ ledger[1].sha256_hash = ledger[2].sha256_hash

\* C23: a read, and a write into what get_ledger returned, leave the ledger
\* and the tip hash as they were (here every step that is not a process_audit
\* call changes resp).
C23_ReadsArePure ==
    [][resp' # resp => (ledger' = ledger /\ previous_hash' = previous_hash)]_vars

\* a returned dict was overwritten and the stored record still has its value
C23_Witness ==
    /\ resp.kind = "get_ledger"
    /\ resp.modified
    /\ Len(resp.value) = 2
    /\ Len(ledger) = 2
    /\ resp.value[2].decision # ledger[2].decision
    /\ resp.value[1] = ToDict(ledger[1])

\* the smaller of two numbers
Min(a, b) ==
    IF a <= b THEN a ELSE b

\* the last m records of a ledger, as dicts, in insertion order
LastRecords(ldg, m) ==
    [k \in 1..m |-> ToDict(ldg[Len(ldg) - m + k])]

\* C24: GET /ledger with limit L > 0 answers with the last min(L, n) records
\* of the n in the ledger, and with limit absent, 0 or negative with all n, in
\* insertion order; total_count is n, chain_integrity is what
\* verify_chain_integrity returns and current_hash is the tip hash (here every
\* step that changes resp is a GET /ledger).
C24_LedgerQuery ==
    [][resp' # resp =>
          /\ resp'.records =
                IF resp'.limit # None /\ resp'.limit \in { <<L>> : L \in 1..(MaxLedger + 1) }
                THEN LastRecords(ledger', Min(resp'.limit[1], Len(ledger')))
                ELSE LastRecords(ledger', Len(ledger'))
          /\ resp'.total_count = Len(ledger')
          /\ resp'.chain_integrity = VerifyChainIntegrity(ledger')
          /\ resp'.current_hash = previous_hash' ]_vars

\* a query for the last record of two, and a query for more than there are
C24_Witness ==
    /\ resp.kind = "ledger"
    /\ resp.limit = <<1>>
    /\ resp.total_count = 2
    /\ Len(resp.records) = 1
    /\ resp.records[1] = ToDict(ledger[2])
    /\ ledger[1] # ledger[2]

C24_WitnessOverLimit ==
    /\ resp.kind = "ledger"
    /\ resp.limit = <<MaxLedger + 1>>
    /\ resp.total_count = MaxLedger
    /\ Len(resp.records) = MaxLedger
    /\ ~resp.chain_integrity

\* a rule is among the violations
Reports(violations, rule) ==
    \E i \in 1..Len(violations) : violations[i].violated_rule = rule

\* C25: check_guardrails never reports both amount rules nor both risk rules,
\* so at most two violations; amount 1,000,000 is a soft violation and not a
\* hard one, amount 100,000 is no amount violation, risk 0.5 is a soft
\* violation and not a hard one, risk 0.7 is no risk violation.
C25_RuleBoundaries ==
    probe.src = "check_guardrails" =>
        LET vs == probe.violations
            a == probe.amount
            r == probe.risk
        IN  /\ ~(Reports(vs, "AMOUNT_HARD_LIMIT") /\ Reports(vs, "AMOUNT_SOFT_LIMIT"))
            /\ ~(Reports(vs, "RISK_HARD_LIMIT") /\ Reports(vs, "RISK_SOFT_LIMIT"))
            /\ Len(vs) <= 2
            /\ a = 1000000 =>
                  Reports(vs, "AMOUNT_SOFT_LIMIT") /\ ~Reports(vs, "AMOUNT_HARD_LIMIT")
            /\ a = 100000 =>
                  ~Reports(vs, "AMOUNT_SOFT_LIMIT") /\ ~Reports(vs, "AMOUNT_HARD_LIMIT")
            /\ r = 50 =>
                  Reports(vs, "RISK_SOFT_LIMIT") /\ ~Reports(vs, "RISK_HARD_LIMIT")
            /\ r = 70 =>
                  ~Reports(vs, "RISK_SOFT_LIMIT") /\ ~Reports(vs, "RISK_HARD_LIMIT")

\* both boundaries of the soft ranges' reporting side at once
C25_Witness ==
    /\ probe.src = "check_guardrails"
    /\ probe.amount = 1000000
    /\ probe.risk = 50
    /\ Len(probe.violations) = 2

\* the decision the guardrail rules give for an amount and a risk score
RuleDecision(amount, risk) ==
    IF amount > 1000000 \/ risk < 50 THEN "BLOCKED"
    ELSE IF amount > 100000 \/ risk < 70 THEN "FLAGGED"
    ELSE "APPROVED"

C27_Gatekeeper ==
    [][ /\ (orch.pc # "returned" /\ orch'.pc = "returned") =>
              /\ orch.explainer_done
              /\ orch.ledger_done
              /\ orch'.is_certified = (orch.ledger_success /\ orch.risk_score <= 700)
              /\ ~orch.ledger_success =>
                    orch'.status = "FAILED: Ledger write unsuccessful. Integrity check required."
              /\ (orch.ledger_success /\ orch.risk_score > 700) =>
                    orch'.status = "HITL_PAUSE: Risk score above threshold (0.7). Human intervention required."
        /\ (~orch.ledger_done /\ orch'.ledger_done) =>
              LET fingerprint == Fingerprint(orch.scenario[1], orch.risk_score)
              IN  /\ ~orch'.ledger_raised
                  /\ fingerprint \in db => (~orch'.ledger_success /\ db' = db)
                  /\ orch'.ledger_success => (fingerprint \notin db /\ fingerprint \in db')
                  /\ ~orch'.ledger_success => db' = db ]_vars

\* a run whose fingerprint was already in the table, with a score over 0.7
C27_Witness ==
    /\ orch.pc = "returned"
    /\ orch.exc = "IntegrityError"
    /\ orch.risk_score > 700
    /\ orch.status = "FAILED: Ledger write unsuccessful. Integrity check required."
    /\ ~orch.is_certified

====
